---- MODULE Spec2Model ----
\* A model of the git-backed item store of smeagol (src/src/git.rs):
\* GitRepository::head, GitItem::{object, exists, is_dir, is_file, can_exist,
\* content, list, edit, add_to_tree, remove, remove_from_tree}.
\*
\* Objects are content addressed: an object id is a hash of the object, so two
\* ids are equal exactly when the objects are equal.  The model therefore uses
\* the object value itself where the code uses an Oid.
EXTENDS Naturals, Integers, Sequences, FiniteSets, TLC

\* ---------------------------------------------------------------- bounds
MaxDepth == 3          \* longest path (in segments) handed to the item API
MaxContent == 2        \* file contents are 1..MaxContent
MaxCommits == 4        \* commits the repository may hold
MaxConcDepth == 2      \* longest path handed to calls that run interleaved
                       \* or are mixed with queries

\* ------------------------------------------------------------- constants
FileMode == 33188      \* 0o100644, non-executable file
DirMode == 16384       \* 0o040000, directory

Names == {"a", "b"}
\* the order in which a tree lists its entries (git sorts them by name)
NameOrder == <<"a", "b">>
Contents == 1..MaxContent
\* the paths handed to the item API: directories are named "a", so only the
\* last segment varies; the root path is the empty sequence
Paths == {p \in UNION {[1..n -> Names] : n \in 0..MaxDepth} :
             \A i \in 1..(Len(p) - 1) : p[i] = "a"}
Root == << >>

VARIABLES
    commits,   \* commits[i]: the parents of the i-th commit created
    head,      \* the commit HEAD points to (index into commits), 0 = unborn
    tree,      \* the tree of the head commit; no code reads the tree of
               \* another commit (the empty tree while HEAD is unborn)
    last,      \* the call that ran last: operation, arguments, result, and
               \* head / number of commits when it was entered
               \* (recorded by Spec and SpecStore)
    edited,    \* the paths that were the target of an edit call
               \* (recorded by SpecHistory)
    procs      \* the calls in progress, one per caller: where the call is
               \* and what it has read so far (used by SpecConc)

vars == <<commits, head, tree, last, edited, procs>>

\* ---------------------------------------------------------------- objects
EmptyEnts == [n \in {} |-> 0]
Blob(c) == [t |-> "blob", data |-> c, ents |-> EmptyEnts]
Tree(e) == [t |-> "tree", data |-> 0, ents |-> e]
EmptyTree == Tree(EmptyEnts)
Entry(o, m) == [obj |-> o, mode |-> m]

\* git2::TreeEntry::kind: the kind recorded in the entry's file mode
EntryKind(e) == IF e.mode = DirMode THEN "tree" ELSE "blob"

\* git2::TreeBuilder, as the mapping name -> entry it holds
TbHas(tb, name) == name \in DOMAIN tb
TbInsert(tb, name, o, m) ==
    [n \in (DOMAIN tb) \cup {name} |-> IF n = name THEN Entry(o, m) ELSE tb[n]]
TbRemove(tb, name) == [n \in (DOMAIN tb) \ {name} |-> tb[n]]
TbLen(tb) == Cardinality(DOMAIN tb)
TbWrite(tb) == Tree(tb)

\* ------------------------------------------------------------------ paths
Segments(p) == Len(p)
IsEmpty(p) == Len(p) = 0
Parent(p) == SubSeq(p, 1, Len(p) - 1)
Filename(p) == p[Len(p)]
PopFirstRest(p) == Tail(p)
IsRoot(p) == Len(p) = 0

\* ------------------------------------------------------------------- head
\* GitRepository::head: the head commit; an unborn branch first gets a
\* parentless root commit with the empty tree.
RootParents == << >>
\* mutant: the root commit is created on every call
HeadCommitsAlways(cs, h) == Append(cs, RootParents)
HeadCommits(cs, h) == IF h = 0 THEN Append(cs, RootParents) ELSE cs
HeadId(cs, h) == IF h = 0 THEN Len(cs) + 1 ELSE h

\* the tree every query and mutation starts from: head()?.tree()
HeadTree == IF head = 0 THEN EmptyTree ELSE tree

\* ------------------------------------------------------------------ reads
NotFound == [t |-> "NotFound", data |-> 0, ents |-> EmptyEnts]

RECURSIVE ObjectInEmptyRootMissing(_, _)
\* mutant: a root tree without entries is not found
ObjectInEmptyRootMissing(rt, p) ==
    IF IsEmpty(p) THEN (IF TbLen(rt.ents) = 0 THEN NotFound ELSE rt)
    ELSE LET po == ObjectInEmptyRootMissing(rt, Parent(p)) IN
         IF po.t # "tree" THEN NotFound
         ELSE IF TbHas(po.ents, Filename(p)) THEN po.ents[Filename(p)].obj
              ELSE NotFound

\* mutant: the entry is looked up in the root tree, not in the parent's tree
ObjectInRootLookup(rt, p) ==
    IF IsEmpty(p) THEN rt
    ELSE IF TbHas(rt.ents, Filename(p)) THEN rt.ents[Filename(p)].obj
         ELSE NotFound

RECURSIVE ObjectIn(_, _)
\* GitItem::object against the root tree rt: the object at path p, or NotFound
ObjectIn(rt, p) ==
    IF IsEmpty(p) THEN rt
    ELSE LET po == ObjectIn(rt, Parent(p)) IN
         IF po.t # "tree" THEN NotFound
         ELSE IF TbHas(po.ents, Filename(p)) THEN po.ents[Filename(p)].obj
              ELSE NotFound

Object(p) == ObjectIn(HeadTree, p)

\* Result<T, GitError>
Ok(v) == [err |-> "Ok", val |-> v]
Err(e) == [err |-> e, val |-> 0]

Exists(p) == Object(p).t # "NotFound"
IsDir(p) == IF Object(p).t = "NotFound" THEN Err("NotFound") ELSE Ok(Object(p).t = "tree")
IsFile(p) == IF Object(p).t = "NotFound" THEN Err("NotFound") ELSE Ok(Object(p).t = "blob")
Content(p) ==
    CASE Object(p).t = "NotFound" -> Err("NotFound")
      [] Object(p).t = "blob" -> Ok(Object(p).data)
      [] OTHER -> Err("IsDir")
\* the items GitItem::list pushes for the tree o found at path p: one per
\* entry, in the tree's order
Listing(o, p) ==
    LET names == SelectSeq(NameOrder, LAMBDA n : n \in DOMAIN o.ents)
    IN  [i \in 1..Len(names) |-> Append(p, names[i])]
List(p) ==
    CASE Object(p).t = "NotFound" -> Err("NotFound")
      [] Object(p).t = "tree" -> Ok(Listing(Object(p), p))
      [] OTHER -> Err("IsFile")

\* mutant: only the parent is looked at, the recursion on it is missing
CanExistParentOnly(p) ==
    IF Segments(p) <= 1 THEN TRUE
    ELSE ~(Exists(Parent(p)) /\ IsFile(Parent(p)).val)

RECURSIVE CanExist(_)
\* GitItem::can_exist
CanExist(p) ==
    IF Segments(p) <= 1 THEN TRUE
    ELSE IF Exists(Parent(p)) /\ IsFile(Parent(p)).val THEN FALSE
         ELSE CanExist(Parent(p))

\* -------------------------------------------------------------- tree edits
\* mutant: an existing file keeps its old blob
AddFileKeepsOld(tb, filename, object) ==
    IF TbHas(tb, filename)
    THEN IF EntryKind(tb[filename]) # "blob" THEN [res |-> "IsDir", tb |-> tb]
         ELSE IF tb[filename].obj = object THEN [res |-> "NoChange", tb |-> tb]
         ELSE [res |-> "Ok", tb |-> tb]
    ELSE [res |-> "Ok", tb |-> TbInsert(tb, filename, object, FileMode)]

\* mutant: the object ids are not compared
AddFileUnchecked(tb, filename, object) ==
    IF TbHas(tb, filename)
    THEN IF EntryKind(tb[filename]) # "blob" THEN [res |-> "IsDir", tb |-> tb]
         ELSE [res |-> "Ok", tb |-> TbInsert(tb, filename, object, tb[filename].mode)]
    ELSE [res |-> "Ok", tb |-> TbInsert(tb, filename, object, FileMode)]

\* GitItem::add_to_tree, the case of one remaining segment: [res, tb] with the
\* builder as the call leaves it
AddFile(tb, filename, object) ==
    IF TbHas(tb, filename)
    THEN IF EntryKind(tb[filename]) # "blob" THEN [res |-> "IsDir", tb |-> tb]
         ELSE IF tb[filename].obj = object THEN [res |-> "NoChange", tb |-> tb]
         ELSE [res |-> "Ok", tb |-> TbInsert(tb, filename, object, tb[filename].mode)]
    ELSE [res |-> "Ok", tb |-> TbInsert(tb, filename, object, FileMode)]

RECURSIVE AddToTreeUnderFilename(_, _, _)
\* mutant: the rebuilt subtree is inserted under the file's name
AddToTreeUnderFilename(tb, path, object) ==
    IF Segments(path) = 1
    THEN AddFile(tb, Filename(path), object)
    ELSE LET first == Head(path)
             rest == PopFirstRest(path) IN
         IF TbHas(tb, first) /\ tb[first].obj.t # "tree"
         THEN [res |-> "CannotCreate", tb |-> tb]
         ELSE LET sub == AddToTreeUnderFilename(
                             IF TbHas(tb, first) THEN tb[first].obj.ents
                                                 ELSE EmptyEnts,
                             rest, object) IN
              IF sub.res # "Ok" THEN [res |-> sub.res, tb |-> tb]
              ELSE [res |-> "Ok",
                    tb |-> TbInsert(tb, Filename(path), TbWrite(sub.tb), DirMode)]

RECURSIVE AddToTreeFreshSubtree(_, _, _)
\* mutant: the subtree is always built from an empty builder
AddToTreeFreshSubtree(tb, path, object) ==
    IF Segments(path) = 1
    THEN AddFile(tb, Filename(path), object)
    ELSE LET first == Head(path)
             rest == PopFirstRest(path) IN
         IF TbHas(tb, first) /\ tb[first].obj.t # "tree"
         THEN [res |-> "CannotCreate", tb |-> tb]
         ELSE LET sub == AddToTreeFreshSubtree(EmptyEnts, rest, object) IN
              IF sub.res # "Ok" THEN [res |-> sub.res, tb |-> tb]
              ELSE [res |-> "Ok", tb |-> TbInsert(tb, first, TbWrite(sub.tb), DirMode)]

RECURSIVE AddToTree(_, _, _)
\* GitItem::add_to_tree on the builder tb: [res, tb] with the builder as the
\* call leaves it
AddToTree(tb, path, object) ==
    IF Segments(path) = 1
    THEN AddFile(tb, Filename(path), object)
    ELSE LET first == Head(path)
             rest == PopFirstRest(path) IN
         IF TbHas(tb, first) /\ tb[first].obj.t # "tree"
         THEN [res |-> "CannotCreate", tb |-> tb]
         ELSE LET sub == AddToTree(IF TbHas(tb, first) THEN tb[first].obj.ents
                                                       ELSE EmptyEnts,
                                   rest, object) IN
              IF sub.res # "Ok" THEN [res |-> sub.res, tb |-> tb]
              ELSE [res |-> "Ok", tb |-> TbInsert(tb, first, TbWrite(sub.tb), DirMode)]

RECURSIVE RemoveFromTreeClears(_, _)
\* mutant: the last level drops every entry, not only the named one
RemoveFromTreeClears(tb, path) ==
    IF Segments(path) = 1
    THEN IF ~TbHas(tb, Filename(path))
         THEN [res |-> "NotFound", empty |-> FALSE, tb |-> tb]
         ELSE [res |-> "Ok", empty |-> TRUE, tb |-> EmptyEnts]
    ELSE LET first == Head(path)
             rest == PopFirstRest(path) IN
         IF ~TbHas(tb, first) \/ tb[first].obj.t # "tree"
         THEN [res |-> "NotFound", empty |-> FALSE, tb |-> tb]
         ELSE LET sub == RemoveFromTreeClears(tb[first].obj.ents, rest) IN
              IF sub.res # "Ok" THEN [res |-> sub.res, empty |-> FALSE, tb |-> tb]
              ELSE IF sub.empty /\ TbLen(tb) = 1
                   THEN [res |-> "Ok", empty |-> TRUE, tb |-> tb]
                   ELSE [res |-> "Ok", empty |-> FALSE,
                         tb |-> TbInsert(tb, first, TbWrite(sub.tb), DirMode)]

RECURSIVE RemoveFromTreeUnchecked(_, _)
\* mutant: the last level does not look whether the entry is there
RemoveFromTreeUnchecked(tb, path) ==
    IF Segments(path) = 1
    THEN [res |-> "Ok", empty |-> TbLen(TbRemove(tb, Filename(path))) = 0,
          tb |-> TbRemove(tb, Filename(path))]
    ELSE LET first == Head(path)
             rest == PopFirstRest(path) IN
         IF ~TbHas(tb, first) \/ tb[first].obj.t # "tree"
         THEN [res |-> "NotFound", empty |-> FALSE, tb |-> tb]
         ELSE LET sub == RemoveFromTreeUnchecked(tb[first].obj.ents, rest) IN
              IF sub.res # "Ok" THEN [res |-> sub.res, empty |-> FALSE, tb |-> tb]
              ELSE IF sub.empty /\ TbLen(tb) = 1
                   THEN [res |-> "Ok", empty |-> TRUE, tb |-> tb]
                   ELSE [res |-> "Ok", empty |-> FALSE,
                         tb |-> TbInsert(tb, first, TbWrite(sub.tb), DirMode)]

RECURSIVE RemoveFromTreePrunes(_, _)
\* mutant: an emptied subtree is removed from a level that keeps other entries
RemoveFromTreePrunes(tb, path) ==
    IF Segments(path) = 1
    THEN IF ~TbHas(tb, Filename(path))
         THEN [res |-> "NotFound", empty |-> FALSE, tb |-> tb]
         ELSE [res |-> "Ok", empty |-> TbLen(TbRemove(tb, Filename(path))) = 0,
               tb |-> TbRemove(tb, Filename(path))]
    ELSE LET first == Head(path)
             rest == PopFirstRest(path) IN
         IF ~TbHas(tb, first) \/ tb[first].obj.t # "tree"
         THEN [res |-> "NotFound", empty |-> FALSE, tb |-> tb]
         ELSE LET sub == RemoveFromTreePrunes(tb[first].obj.ents, rest) IN
              IF sub.res # "Ok" THEN [res |-> sub.res, empty |-> FALSE, tb |-> tb]
              ELSE IF sub.empty /\ TbLen(tb) = 1
                   THEN [res |-> "Ok", empty |-> TRUE, tb |-> tb]
                   ELSE IF sub.empty
                   THEN [res |-> "Ok", empty |-> FALSE, tb |-> TbRemove(tb, first)]
                   ELSE [res |-> "Ok", empty |-> FALSE,
                         tb |-> TbInsert(tb, first, TbWrite(sub.tb), DirMode)]

RECURSIVE RemoveFromTree(_, _)
\* GitItem::remove_from_tree on the builder tb: [res, empty, tb]; empty is the
\* boolean the code returns, tb the builder as the call leaves it
RemoveFromTree(tb, path) ==
    IF Segments(path) = 1
    THEN IF ~TbHas(tb, Filename(path))
         THEN [res |-> "NotFound", empty |-> FALSE, tb |-> tb]
         ELSE [res |-> "Ok", empty |-> TbLen(TbRemove(tb, Filename(path))) = 0,
               tb |-> TbRemove(tb, Filename(path))]
    ELSE LET first == Head(path)
             rest == PopFirstRest(path) IN
         IF ~TbHas(tb, first) \/ tb[first].obj.t # "tree"
         THEN [res |-> "NotFound", empty |-> FALSE, tb |-> tb]
         ELSE LET sub == RemoveFromTree(tb[first].obj.ents, rest) IN
              IF sub.res # "Ok" THEN [res |-> sub.res, empty |-> FALSE, tb |-> tb]
              ELSE IF sub.empty /\ TbLen(tb) = 1
                   THEN [res |-> "Ok", empty |-> TRUE, tb |-> tb]
                   ELSE [res |-> "Ok", empty |-> FALSE,
                         tb |-> TbInsert(tb, first, TbWrite(sub.tb), DirMode)]

\* -------------------------------------------------------------- mutations
Call(op, p, c, res) ==
    [op |-> op, path |-> p, content |-> c, res |-> res,
     head0 |-> head, n0 |-> Len(commits)]

\* mutant: the commit is created without a parent
PublishParentless(cs, h, newTree) ==
    [res |-> "Ok", commits |-> Append(cs, << >>), head |-> Len(cs) + 1,
     tree |-> newTree]

\* git2::Repository::commit(Some("HEAD"), .., &new_tree, &[&head]) after
\* head() returned commit h of cs
Publish(cs, h, newTree) ==
    [res |-> "Ok", commits |-> Append(cs, <<h>>), head |-> Len(cs) + 1,
     tree |-> newTree]
\* an error return after head() succeeded
Fail(cs, h, res) ==
    [res |-> res, commits |-> cs, head |-> h, tree |-> HeadTree]

\* mutant: the error of add_to_tree is returned after the commit is made
EditOutcomeCommitsOnError(p, c) ==
    LET cs == HeadCommits(commits, head)
        h == HeadId(commits, head)
    IN  IF IsEmpty(p)
        THEN Fail(cs, h, "Panic")
        ELSE LET r == AddToTree(HeadTree.ents, p, Blob(c)) IN
             [Publish(cs, h, TbWrite(r.tb)) EXCEPT !.res = r.res]

\* what GitItem::edit does to the repository: [res, commits, head, tree]
EditOutcome(p, c) ==
    LET cs == HeadCommits(commits, head)
        h == HeadId(commits, head)
    IN  IF IsEmpty(p)
        THEN Fail(cs, h, "Panic")
        ELSE LET r == AddToTree(HeadTree.ents, p, Blob(c)) IN
             IF r.res # "Ok" THEN Fail(cs, h, r.res)
             ELSE Publish(cs, h, TbWrite(r.tb))

\* mutant: the root is rejected only after head() was resolved
RemoveOutcomeHeadFirst(p) ==
    LET cs == HeadCommits(commits, head)
        h == HeadId(commits, head) IN
    IF IsRoot(p) THEN Fail(cs, h, "NotFound")
    ELSE LET r == RemoveFromTree(HeadTree.ents, p) IN
         IF r.res # "Ok" THEN Fail(cs, h, r.res)
         ELSE Publish(cs, h, TbWrite(IF r.empty THEN EmptyEnts ELSE r.tb))

\* what GitItem::remove does to the repository: [res, commits, head, tree]
RemoveOutcome(p) ==
    IF IsRoot(p)
    THEN [res |-> "NotFound", commits |-> commits, head |-> head, tree |-> tree]
    ELSE LET cs == HeadCommits(commits, head)
             h == HeadId(commits, head)
             r == RemoveFromTree(HeadTree.ents, p) IN
         IF r.res # "Ok" THEN Fail(cs, h, r.res)
         ELSE Publish(cs, h, TbWrite(IF r.empty THEN EmptyEnts ELSE r.tb))

\* a call in which a store operation fails: at = "head" when it fails before
\* head() has returned (blob write, reading HEAD, creating the root commit),
\* at = "publish" when it fails later (building or writing a tree, commit)
StorePoints == {"head", "publish"}
StoreErrorOutcome(at) ==
    IF at = "head"
    THEN [res |-> "Git", commits |-> commits, head |-> head, tree |-> tree]
    ELSE Fail(HeadCommits(commits, head), HeadId(commits, head), "Git")

\* ------------------------------------------------------- callers
\* two callers that edit and remove, one that queries
Writers == {"w1", "w2"}
Readers == {"r"}
Procs == Writers \cup Readers

\* a caller that is in no call
Idle ==
    [pc |-> "idle", op |-> "none", path |-> Root, content |-> 0, h |-> 0,
     base |-> EmptyTree, cur |-> Root, res |-> "none", obj |-> NotFound,
     made |-> 0, snaps |-> {}]

Init ==
    /\ commits = << >>
    /\ head = 0
    /\ tree = EmptyTree
    /\ last = [op |-> "none", path |-> Root, content |-> 0, res |-> "Ok",
               head0 |-> 0, n0 |-> 0]
    /\ edited = {}
    /\ procs = [w \in Procs |-> Idle]

Apply(o) ==
    /\ Len(o.commits) <= MaxCommits
    /\ commits' = o.commits
    /\ head' = o.head
    /\ tree' = o.tree
    /\ UNCHANGED procs

Edit(p, c) ==
    /\ Apply(EditOutcome(p, c))
    /\ last' = Call("edit", p, c, EditOutcome(p, c).res)
    /\ UNCHANGED edited

Remove(p) ==
    /\ Apply(RemoveOutcome(p))
    /\ last' = Call("remove", p, 0, RemoveOutcome(p).res)
    /\ UNCHANGED edited

Next ==
    \/ \E p \in Paths, c \in Contents : Edit(p, c)
    \/ \E p \in Paths : Remove(p)

Spec == Init /\ [][Next]_vars

\* ------------------------------------------------- calls with store errors
EditStoreError(p, c, at) ==
    /\ Apply(StoreErrorOutcome(at))
    /\ last' = Call("edit", p, c, "Git")
    /\ UNCHANGED edited

RemoveStoreError(p, at) ==
    /\ ~IsRoot(p)
    /\ Apply(StoreErrorOutcome(at))
    /\ last' = Call("remove", p, 0, "Git")
    /\ UNCHANGED edited

NextStore ==
    \/ \E p \in Paths, c \in Contents : Edit(p, c)
    \/ \E p \in Paths : Remove(p)
    \/ \E p \in Paths, c \in Contents, at \in StorePoints : EditStoreError(p, c, at)
    \/ \E p \in Paths, at \in StorePoints : RemoveStoreError(p, at)

SpecStore == Init /\ [][NextStore]_vars

\* ----------------------------------- calls with the edited paths recorded
\* (instead of the last call)
EditTracked(p, c) ==
    /\ Apply(EditOutcome(p, c))
    /\ edited' = edited \cup {p}
    /\ UNCHANGED last

RemoveTracked(p) ==
    /\ Apply(RemoveOutcome(p))
    /\ UNCHANGED <<last, edited>>

NextHistory ==
    \/ \E p \in Paths, c \in Contents : EditTracked(p, c)
    \/ \E p \in Paths : RemoveTracked(p)

SpecHistory == Init /\ [][NextHistory]_vars

\* ------------------------------------------- calls with nothing recorded
\* (the repository alone, for the properties of what a call would do next)
EditBare(p, c) ==
    /\ Apply(EditOutcome(p, c))
    /\ UNCHANGED <<last, edited>>

RemoveBare(p) ==
    /\ Apply(RemoveOutcome(p))
    /\ UNCHANGED <<last, edited>>

NextBare ==
    \/ \E p \in Paths, c \in Contents : EditBare(p, c)
    \/ \E p \in Paths : RemoveBare(p)

SpecBare == Init /\ [][NextBare]_vars

\* ------------------------------------------------------ calls with queries
QueryOps == {"exists", "is_dir", "is_file", "can_exist", "content", "list"}

\* the Ok or the error the query returns
QueryResult(op, p) ==
    CASE op = "is_dir" -> IsDir(p).err
      [] op = "is_file" -> IsFile(p).err
      [] op = "content" -> Content(p).err
      [] op = "list" -> List(p).err
      [] OTHER -> "Ok"

\* what the query leaves of the repository: every query resolves head() in
\* object(), except can_exist on a path of at most one segment, which returns
\* without a look-up
QueryLeaves(op, p) ==
    IF op = "can_exist" /\ Segments(p) <= 1
    THEN [commits |-> commits, head |-> head, tree |-> tree]
    ELSE [commits |-> HeadCommits(commits, head),
          head |-> HeadId(commits, head), tree |-> HeadTree]

Query(op, p) ==
    /\ Apply(QueryLeaves(op, p))
    /\ last' = Call(op, p, 0, QueryResult(op, p))
    /\ UNCHANGED edited

\* the paths handed to the calls that are mixed with queries
ShortPaths == {p \in Paths : Len(p) <= MaxConcDepth}

NextQueries ==
    \/ \E p \in ShortPaths, c \in Contents : Edit(p, c)
    \/ \E p \in ShortPaths : Remove(p)
    \/ \E op \in QueryOps, p \in ShortPaths : Query(op, p)

SpecQueries == Init /\ [][NextQueries]_vars

\* ------------------------------------------------------- the GET handler
INDEX_FILE == "index.md"

\* the contents that are not valid UTF-8 (edit takes any bytes)
NotUtf8 == {MaxContent}
\* String::from_utf8_lossy: valid content is its own text; for other content
\* c + MaxContent stands for the text with U+FFFD in place of the bad bytes
FromUtf8Lossy(c) == IF c \in NotUtf8 THEN c + MaxContent ELSE c

Push(p, segment) == Append(p, segment)
\* the segments joined by "/"; the segments used here consist of unreserved
\* characters, which percent-encoding leaves as they are
PercentEncode(p) ==
    [i \in 1..(2 * Len(p) - 1) |-> IF i % 2 = 1 THEN p[(i + 1) \div 2] ELSE "/"]

\* mutant: a directory is redirected to its own path
GetResponseNoIndex(r, p) ==
    CASE r.err = "Ok" ->
            [status |-> 200, location |-> << >>,
             body |-> [template |-> "get.html", path |-> p,
                       content |-> FromUtf8Lossy(r.val)]]
      [] r.err = "IsDir" ->
            [status |-> 302, location |-> <<"/">> \o PercentEncode(p),
             body |-> [template |-> "", path |-> Root, content |-> 0]]
      [] r.err = "NotFound" ->
            [status |-> 404, location |-> << >>,
             body |-> [template |-> "get_not_found.html", path |-> p,
                       content |-> 0]]
      [] OTHER ->
            [status |-> 500, location |-> << >>,
             body |-> [template |-> "An internal error occurred.",
                       path |-> Root, content |-> 0]]

\* the response of the handler of Smeagol::get when item.content() returned r
\* for the request path p: status, Location header, and the body as the
\* template with the data it is rendered from (or the literal text)
GetResponse(r, p) ==
    CASE r.err = "Ok" ->
            [status |-> 200, location |-> << >>,
             body |-> [template |-> "get.html", path |-> p,
                       content |-> FromUtf8Lossy(r.val)]]
      [] r.err = "IsDir" ->
            [status |-> 302,
             location |-> <<"/">> \o PercentEncode(Push(p, INDEX_FILE)),
             body |-> [template |-> "", path |-> Root, content |-> 0]]
      [] r.err = "NotFound" ->
            [status |-> 404, location |-> << >>,
             body |-> [template |-> "get_not_found.html", path |-> p,
                       content |-> 0]]
      [] OTHER ->
            [status |-> 500, location |-> << >>,
             body |-> [template |-> "An internal error occurred.",
                       path |-> Root, content |-> 0]]

Served(p, res, resp) ==
    [op |-> "get", path |-> p, content |-> 0, res |-> res, head0 |-> head,
     n0 |-> Len(commits), resp |-> resp]

\* a GET of the non-root path p (index() answers the bare "/")
Get(p) ==
    /\ Apply(QueryLeaves("content", p))
    /\ last' = Served(p, Content(p).err, GetResponse(Content(p), p))
    /\ UNCHANGED edited

\* a GET in which a store operation of content() fails
GetStoreError(p, at) ==
    /\ Apply(StoreErrorOutcome(at))
    /\ last' = Served(p, "Git", GetResponse(Err("Git"), p))
    /\ UNCHANGED edited

NextServe ==
    \/ \E p \in ShortPaths, c \in Contents : Edit(p, c)
    \/ \E p \in ShortPaths : Remove(p)
    \/ \E p \in ShortPaths \ {Root} : Get(p)
    \/ \E p \in ShortPaths \ {Root}, at \in StorePoints : GetStoreError(p, at)

SpecServe == Init /\ [][NextServe]_vars

\* ---------------------------------------------- calls on paths one level deeper
DeepPaths == {p \in UNION {[1..n -> Names] : n \in 0..(MaxDepth + 1)} :
                 \A i \in 1..(Len(p) - 1) : p[i] = "a"}

NextDeep ==
    \/ \E p \in DeepPaths, c \in Contents : Edit(p, c)
    \/ \E p \in DeepPaths : Remove(p)

SpecDeep == Init /\ [][NextDeep]_vars

\* ------------------------------------------------ calls that run interleaved
\* Every git2 call that reads or moves HEAD is one step; what a call does
\* between two such steps works on objects it already holds, which are
\* immutable.
ConcPaths == {p \in Paths : 1 <= Len(p) /\ Len(p) <= MaxConcDepth}
\* the paths queried: one level deeper, so that can_exist walks up a level
QueryPaths == {p \in Paths : 1 <= Len(p) /\ Len(p) <= MaxConcDepth + 1}
\* the one content the interleaved edits write
ConcContents == {1}

\* mutant: the commit becomes the tip whatever the tip is
CommitCreateUnchecked(cs, hd, tr, parents, newTree) ==
    [res |-> "Ok", commits |-> Append(cs, parents), head |-> Len(cs) + 1,
     tree |-> newTree, made |-> Len(cs) + 1]

\* mutant: a commit without parents is not compared with the tip
CommitCreateRootUnchecked(cs, hd, tr, parents, newTree) ==
    IF hd # 0 /\ parents # << >> /\ parents[1] # hd
    THEN [res |-> "Git", commits |-> cs, head |-> hd, tree |-> tr, made |-> 0]
    ELSE [res |-> "Ok", commits |-> Append(cs, parents), head |-> Len(cs) + 1,
          tree |-> newTree, made |-> Len(cs) + 1]

\* git2::Repository::commit(Some("HEAD"), .., &newTree, parents) on the
\* repository <<cs, hd, tr>>: "If the reference doesn't exist yet, it will be
\* created. If it does exist, the first parent must be the tip of this
\* branch." (git_commit_create: "current tip is not the first parent")
CommitCreate(cs, hd, tr, parents, newTree) ==
    IF hd # 0 /\ (parents = << >> \/ parents[1] # hd)
    THEN [res |-> "Git", commits |-> cs, head |-> hd, tree |-> tr, made |-> 0]
    ELSE [res |-> "Ok", commits |-> Append(cs, parents), head |-> Len(cs) + 1,
          tree |-> newTree, made |-> Len(cs) + 1]

\* the trees that were head's while a query ran: a commit adds its tree to
\* the record of every query in progress
Seen(newTree) ==
    [w \in Procs |->
        IF w \in Readers /\ procs[w].pc \notin {"idle", "done"}
        THEN [procs[w] EXCEPT !.snaps = @ \cup {newTree}]
        ELSE procs[w]]

\* the call has returned res; the trees it held are dropped
Done(rec, res) ==
    [rec EXCEPT !.pc = "done", !.res = res, !.base = EmptyTree, !.cur = Root]

\* self.repo.head() at the entry of GitRepository::head: the tip is read, or
\* the branch is found unborn
ReadHead(rec) ==
    IF head = 0 THEN [rec EXCEPT !.pc = "boot"]
    ELSE [rec EXCEPT !.pc = "work", !.h = head, !.base = tree]

\* a call is entered and runs up to its first access to HEAD
Begin(w, op, p, c) ==
    /\ procs[w].pc \in {"idle", "done"}
    /\ op \in (IF w \in Writers THEN {"edit", "remove"}
               ELSE {"object", "can_exist"})
    /\ LET rec == [Idle EXCEPT !.op = op, !.path = p, !.cur = p,
                               !.content = IF op = "edit" THEN c ELSE 0,
                               !.snaps = IF w \in Readers THEN {HeadTree}
                                         ELSE {}] IN
       procs' = [procs EXCEPT ![w] =
                    IF op = "remove" /\ IsRoot(p) THEN Done(rec, "NotFound")
                    ELSE IF op = "can_exist" /\ Segments(p) <= 1
                         THEN Done(rec, "true")
                    ELSE ReadHead(rec)]
    /\ UNCHANGED <<commits, head, tree, last, edited>>

\* GitRepository::head on an unborn branch: the commit of the empty tree
Boot(w) ==
    /\ procs[w].pc = "boot"
    /\ Len(commits) < MaxCommits
    /\ LET r == CommitCreate(commits, head, tree, RootParents, EmptyTree)
           seen == IF r.res = "Ok" THEN Seen(EmptyTree) ELSE procs IN
       /\ commits' = r.commits
       /\ head' = r.head
       /\ tree' = r.tree
       /\ procs' = [seen EXCEPT ![w] =
                       IF r.res = "Ok" THEN [seen[w] EXCEPT !.pc = "reread"]
                       ELSE Done(seen[w], r.res)]
    /\ UNCHANGED <<last, edited>>

\* GitRepository::head: self.repo.head().unwrap() after the root commit
Reread(w) ==
    /\ procs[w].pc = "reread"
    /\ procs' = [procs EXCEPT ![w] =
                    [@ EXCEPT !.pc = "work", !.h = head, !.base = tree]]
    /\ UNCHANGED <<commits, head, tree, last, edited>>

\* the rest of GitItem::edit / GitItem::remove: the new tree is built from the
\* tree of the commit head() returned, then committed with that parent
Commit(w) ==
    /\ procs[w].pc = "work"
    /\ procs[w].op \in {"edit", "remove"}
    /\ Len(commits) < MaxCommits
    /\ LET rec == procs[w]
           built == IF rec.op = "edit"
                    THEN IF IsEmpty(rec.path)
                         THEN [res |-> "Panic", tb |-> EmptyEnts]
                         ELSE AddToTree(rec.base.ents, rec.path,
                                        Blob(rec.content))
                    ELSE LET r == RemoveFromTree(rec.base.ents, rec.path) IN
                         [res |-> r.res,
                          tb |-> IF r.empty THEN EmptyEnts ELSE r.tb]
           r == IF built.res = "Ok"
                THEN CommitCreate(commits, head, tree, <<rec.h>>,
                                  TbWrite(built.tb))
                ELSE [res |-> built.res, commits |-> commits, head |-> head,
                      tree |-> tree, made |-> 0]
           seen == IF r.made # 0 THEN Seen(r.tree) ELSE procs IN
       /\ commits' = r.commits
       /\ head' = r.head
       /\ tree' = r.tree
       /\ procs' = [seen EXCEPT ![w] = [Done(rec, r.res) EXCEPT !.made = r.made]]
    /\ UNCHANGED <<last, edited>>

\* exists, is_dir, is_file, content and list: GitItem::object resolves the
\* path in the tree of the commit head() returned
Resolve(w) ==
    /\ procs[w].pc = "work"
    /\ procs[w].op = "object"
    /\ LET o == ObjectIn(procs[w].base, procs[w].path) IN
       procs' = [procs EXCEPT ![w] = [Done(@, o.t) EXCEPT !.obj = o]]
    /\ UNCHANGED <<commits, head, tree, last, edited>>

\* GitItem::can_exist goes on with the parent of cur
Recurse(rec) ==
    IF Segments(Parent(rec.cur)) <= 1 THEN Done(rec, "true")
    ELSE [rec EXCEPT !.pc = "exists", !.cur = Parent(rec.cur)]

\* GitItem::can_exist: parent.exists() has resolved the parent of cur
ParentExists(w) ==
    /\ procs[w].pc = "work"
    /\ procs[w].op = "can_exist"
    /\ LET rec == procs[w] IN
       procs' = [procs EXCEPT ![w] =
                    IF ObjectIn(rec.base, Parent(rec.cur)).t # "NotFound"
                    THEN [rec EXCEPT !.pc = "is_file"]
                    ELSE Recurse(rec)]
    /\ UNCHANGED <<commits, head, tree, last, edited>>

\* GitItem::can_exist: parent.is_file() resolves the parent of cur again, in
\* the tree HEAD has now
ParentIsFile(w) ==
    /\ procs[w].pc = "is_file"
    /\ LET rec == procs[w]
           o == ObjectIn(tree, Parent(rec.cur)) IN
       procs' = [procs EXCEPT ![w] =
                    CASE o.t = "NotFound" -> Done(rec, "NotFound")
                      [] o.t = "blob" -> Done(rec, "false")
                      [] OTHER -> Recurse(rec)]
    /\ UNCHANGED <<commits, head, tree, last, edited>>

\* GitItem::can_exist: parent.exists() of the next level reads HEAD
NextParent(w) ==
    /\ procs[w].pc = "exists"
    /\ procs' = [procs EXCEPT ![w] = [@ EXCEPT !.pc = "work", !.base = tree]]
    /\ UNCHANGED <<commits, head, tree, last, edited>>

\* two callers that edit and remove
NextWriters ==
    \/ \E w \in Writers, op \in {"edit", "remove"}, p \in ConcPaths,
          c \in ConcContents : Begin(w, op, p, c)
    \/ \E w \in Writers : Boot(w)
    \/ \E w \in Writers : Reread(w)
    \/ \E w \in Writers : Commit(w)

SpecWriters == Init /\ [][NextWriters]_vars

\* one caller that edits and removes, one that queries
NextReads ==
    \/ \E op \in {"edit", "remove"}, p \in ConcPaths, c \in ConcContents :
          Begin("w1", op, p, c)
    \/ \E w \in Readers, op \in {"object", "can_exist"}, p \in QueryPaths :
          Begin(w, op, p, 0)
    \/ \E w \in {"w1"} \cup Readers : Boot(w)
    \/ \E w \in {"w1"} \cup Readers : Reread(w)
    \/ Commit("w1")
    \/ \E w \in Readers : Resolve(w)
    \/ \E w \in Readers : ParentExists(w)
    \/ \E w \in Readers : ParentIsFile(w)
    \/ \E w \in Readers : NextParent(w)

SpecReads == Init /\ [][NextReads]_vars

\* ================================================================= claims
Mutation == last.op \in {"edit", "remove"}
Succeeded == Mutation /\ last.res = "Ok"
\* an error return (a panic returns nothing)
Failed == Mutation /\ last.res \notin {"Ok", "Panic"}
NonRoot == Paths \ {Root}
ProperAncestors(p) == {SubSeq(p, 1, k) : k \in 0..(Len(p) - 1)}
IsPrefix(p, q) == Len(p) <= Len(q) /\ SubSeq(q, 1, Len(p)) = p
IsFileAt(p) == Object(p).t = "blob"
IsDirAt(p) == Object(p).t = "tree"

\* C1: a remove of a non-root path that returns success leaves the path
\* absent: exists(p) is false right after the call, at every nesting depth.
C1_RemovedPathIsAbsent ==
    (last.op = "remove" /\ last.res = "Ok") => ~Exists(last.path)

\* C2: head's tree never holds a non-root directory with zero entries: a
\* directory emptied by a removal is removed from its parent as well.
C2_NoEmptyDirectory ==
    \A p \in NonRoot : IsDirAt(p) => TbLen(Object(p).ents) > 0

\* C3: after a successful edit(p, c) the path exists, is a file, is not a
\* directory and its content is c (also when p held other content before).
C3_EditRoundTrip ==
    (last.op = "edit" /\ last.res = "Ok") =>
        /\ Exists(last.path)
        /\ IsFile(last.path).err = "Ok" /\ IsFile(last.path).val
        /\ IsDir(last.path).err = "Ok" /\ ~IsDir(last.path).val
        /\ Content(last.path).err = "Ok"
        /\ Content(last.path).val = last.content

C3_Witness ==
    /\ last.op = "edit" /\ last.res = "Ok"
    /\ Len(last.path) >= 2
    /\ last.n0 >= 3
    /\ Content(last.path).val = 2

\* C4 as stated: every successful mutation creates exactly one commit, whose
\* single parent is the commit that was head before the call, and head points
\* to it; also on a freshly initialized repository.
C4_OneCommitOnPriorHead ==
    Succeeded =>
        /\ Len(commits) = last.n0 + 1
        /\ head = Len(commits)
        /\ commits[head] = <<last.head0>>
        /\ last.head0 # 0

\* C4 amended: a successful mutation appends one commit whose single parent is
\* the commit head() returned, and head points to it.  With a head before the
\* call that is the only new commit and its parent is that head; on an unborn
\* repository the call first creates the parentless root commit, which
\* becomes the parent (two new commits).
C4_OneCommitOnHead ==
    Succeeded =>
        /\ head = Len(commits)
        /\ IF last.head0 # 0
           THEN /\ Len(commits) = last.n0 + 1
                /\ commits[head] = <<last.head0>>
           ELSE /\ Len(commits) = last.n0 + 2
                /\ commits[head] = <<last.n0 + 1>>
                /\ commits[last.n0 + 1] = << >>

C4_Witness == Succeeded /\ last.head0 # 0 /\ last.op = "remove"

\* C5 as stated: an edit or remove that returns an error creates no commit and
\* leaves head what it was, in every reachable state.
C5_ErrorLeavesHead ==
    Failed => Len(commits) = last.n0 /\ head = last.head0

\* C5 amended: an edit or remove that returns an error publishes nothing.
\* With a head before the call no commit is created and head is unchanged; on
\* an unborn repository the only commit that may have been created is the
\* parentless empty-tree root commit of head(), which is then head.
C5_ErrorPublishesNothing ==
    Failed =>
        IF last.head0 # 0
        THEN Len(commits) = last.n0 /\ head = last.head0
        ELSE \/ Len(commits) = last.n0 /\ head = 0
             \/ /\ Len(commits) = last.n0 + 1
                /\ head = Len(commits)
                /\ commits[head] = << >>
                /\ tree = EmptyTree

C5_Witness ==
    /\ Failed /\ last.res \in {"IsDir", "CannotCreate"}
    /\ last.head0 # 0 /\ tree # EmptyTree

\* C6: editing a file with the content it already has fails with NoChange and
\* leaves head and the history alone; an edit with any other content does not
\* fail with NoChange.
C6_NoChange ==
    \A p \in NonRoot, c \in Contents :
        LET o == EditOutcome(p, c) IN
        /\ (IsFileAt(p) /\ Content(p).val = c) =>
              o.res = "NoChange" /\ o.head = head /\ o.commits = commits
        /\ o.res = "NoChange" => IsFileAt(p) /\ Content(p).val = c

C6_Witness ==
    /\ last.op = "edit" /\ last.res = "NoChange"
    /\ head = last.head0 /\ Len(commits) = last.n0
    /\ \E c \in Contents : EditOutcome(last.path, c).res = "Ok"

\* the definition of can_exist in the specification's words: false when the
\* parent is a file, true when the parent is a directory, otherwise whatever
\* holds of the parent
RECURSIVE SpecCanExist(_)
SpecCanExist(p) ==
    IF Len(p) <= 1 THEN TRUE
    ELSE IF IsFileAt(Parent(p)) THEN FALSE
    ELSE IF IsDirAt(Parent(p)) THEN TRUE
    ELSE SpecCanExist(Parent(p))

\* C7: for every path, can_exist is false exactly when a proper ancestor is a
\* file, and exactly when edit fails with CannotCreate; can_exist is true for
\* the root and single-segment paths and agrees with the specification's
\* definition.
C7_CanExist ==
    \A p \in Paths :
        /\ (~CanExist(p)) <=> (\E q \in ProperAncestors(p) : IsFileAt(q))
        /\ \A c \in Contents :
              (~CanExist(p)) <=> (EditOutcome(p, c).res = "CannotCreate")
        /\ Len(p) <= 1 => CanExist(p)
        /\ CanExist(p) = SpecCanExist(p)

C7_Witness ==
    /\ last.op = "edit" /\ last.res = "CannotCreate"
    /\ Len(last.path) = 3
    /\ ~CanExist(last.path)
    /\ ~Exists(Parent(last.path))

\* C8: no path is both a file and a directory, and every proper ancestor of an
\* existing path exists and is a directory.
C8_FileOrDirectory ==
    \A p \in Paths :
        /\ ~(IsFileAt(p) /\ IsDirAt(p))
        /\ Exists(p) => \A q \in ProperAncestors(p) :
                            Exists(q) /\ IsDir(q).err = "Ok" /\ IsDir(q).val

C8_Witness ==
    /\ Succeeded
    /\ \E p \in Paths : Len(p) = 3 /\ IsFileAt(p)
    /\ \E p \in Paths : Len(p) = 1 /\ IsFileAt(p)

\* C9 as stated: a (non-root) path that was never the target of an edit call
\* does not exist and its content is NotFound.
C9_NeverEditedIsAbsent ==
    \A p \in NonRoot :
        p \notin edited => ~Exists(p) /\ Content(p).err = "NotFound"

\* C9 amended: a non-root path does not exist, and its content is NotFound,
\* as long as neither it nor a path beneath it was the target of an edit call.
C9_NeverEditedBeneathIsAbsent ==
    \A p \in NonRoot :
        (\A q \in edited : ~IsPrefix(p, q)) =>
            ~Exists(p) /\ Content(p).err = "NotFound"

C9_Witness ==
    /\ \E q \in edited : Len(q) = 2 /\ IsFileAt(q)
    /\ \E p \in NonRoot : (\A q \in edited : ~IsPrefix(p, q)) /\ ~Exists(p)
    /\ \E p \in NonRoot : p \notin edited /\ Exists(p)

\* C10: remove on the root path fails whatever the repository holds, before
\* the store is touched: no commit is created, not even the root commit of an
\* unborn repository, and head is unchanged.
C10_RemoveRootFails ==
    (last.op = "remove" /\ last.path = Root) =>
        /\ last.res = "NotFound"
        /\ Len(commits) = last.n0
        /\ head = last.head0

C10_Witness ==
    last.op = "remove" /\ last.path = Root /\ head = 0 /\ commits = << >>

\* C11: in every reachable state the root exists, is a directory and is not
\* a file, and none of the three queries fails; also on a fresh repository and
\* after the last entry was removed.
C11_RootIsDirectory ==
    /\ Exists(Root)
    /\ IsDir(Root).err = "Ok" /\ IsDir(Root).val
    /\ IsFile(Root).err = "Ok" /\ ~IsFile(Root).val

C11_Witness ==
    last.op = "remove" /\ last.res = "Ok" /\ tree = EmptyTree /\ ~Exists(last.path)

Count(x, seq) == Cardinality({i \in 1..Len(seq) : seq[i] = x})

\* C15: a successful edit of a path of several segments leaves every proper
\* ancestor an existing directory, and every existing path is listed exactly
\* once by its parent, whatever was edited beneath it since.
C15_AncestorsAreListedOnce ==
    /\ (last.op = "edit" /\ last.res = "Ok") =>
          \A q \in ProperAncestors(last.path) :
              IsDir(q).err = "Ok" /\ IsDir(q).val
    /\ \A q \in NonRoot :
          Exists(q) => /\ List(Parent(q)).err = "Ok"
                       /\ Count(q, List(Parent(q)).val) = 1

C15_Witness ==
    /\ last.op = "edit" /\ last.res = "Ok" /\ Len(last.path) = 3
    /\ \E q \in Paths : Len(q) = 3 /\ q # last.path /\ IsFileAt(q)
    /\ Len(List(Parent(last.path)).val) = 2

\* C16: a successful remove(p) leaves every path that is neither p, nor below
\* p, nor a proper ancestor of p with the object it had; when p had siblings,
\* its directory still exists and lists exactly the siblings.
C16_RemoveFrame ==
    \A p \in NonRoot :
        LET o == RemoveOutcome(p)
            d == Parent(p) IN
        o.res = "Ok" =>
            /\ \A q \in Paths :
                  (~IsPrefix(p, q) /\ ~IsPrefix(q, p)) =>
                      ObjectIn(o.tree, q) = Object(q)
            /\ TbLen(Object(d).ents) >= 2 =>
                  /\ ObjectIn(o.tree, d).t = "tree"
                  /\ Listing(ObjectIn(o.tree, d), d)
                        = SelectSeq(List(d).val, LAMBDA x : x # p)

\* a remove of a/a that succeeds while a/b and b are files, and leaves them
C16_Witness ==
    /\ IsFileAt(<<"a", "a">>) /\ IsFileAt(<<"a", "b">>) /\ IsFileAt(<<"b">>)
    /\ RemoveOutcome(<<"a", "a">>).res = "Ok"
    /\ ObjectIn(RemoveOutcome(<<"a", "a">>).tree, <<"a", "a">>).t = "NotFound"
    /\ ObjectIn(RemoveOutcome(<<"a", "a">>).tree, <<"a", "b">>).t = "blob"
    /\ ObjectIn(RemoveOutcome(<<"a", "a">>).tree, <<"b">>).t = "blob"

\* the callers w1 and w2 have both returned from an edit or remove that got
\* as far as committing, and both had read the same head
Raced(w1, w2) ==
    /\ w1 # w2
    /\ procs[w1].pc = "done" /\ procs[w2].pc = "done"
    /\ procs[w1].res \in {"Ok", "Git"} /\ procs[w2].res \in {"Ok", "Git"}
    /\ procs[w1].h # 0 /\ procs[w1].h = procs[w2].h

RECURSIVE IsAncestor(_, _)
\* commit x is commit y or is reached from it along first parents
IsAncestor(x, y) ==
    IF x = y THEN TRUE
    ELSE IF y = 0 \/ commits[y] = << >> THEN FALSE
    ELSE IsAncestor(x, commits[y][1])

RECURSIVE CanExistIn(_, _)
\* GitItem::can_exist run on the one tree rt
CanExistIn(rt, p) ==
    IF Segments(p) <= 1 THEN TRUE
    ELSE IF ObjectIn(rt, Parent(p)).t = "blob" THEN FALSE
         ELSE CanExistIn(rt, Parent(p))

\* what the query of rec returns when it runs alone on the tree s
RunAlone(rec, s) ==
    IF rec.op = "can_exist"
    THEN (IF CanExistIn(s, rec.path) THEN "true" ELSE "false")
    ELSE ObjectIn(s, rec.path).t

\* C13: a query that ran interleaved with an edit or remove returns what it
\* returns when run alone on one of the trees that were head's during the
\* call; can_exist never fails with NotFound.
C13_SingleSnapshot ==
    \A r \in Readers :
        procs[r].pc = "done" =>
            /\ \E s \in procs[r].snaps :
                  /\ procs[r].res = RunAlone(procs[r], s)
                  /\ procs[r].op = "object" =>
                        procs[r].obj = ObjectIn(s, procs[r].path)
            /\ ~(procs[r].op = "can_exist" /\ procs[r].res = "NotFound")

QueryOutcome ==
    [commits |-> HeadCommits(commits, head), head |-> HeadId(commits, head),
     tree |-> HeadTree]

NothingChanged(o) == o.commits = commits /\ o.head = head

\* C17: content on a directory fails with IsDir, list on a file fails with
\* IsFile, edit on an existing directory fails with IsDir, and none of them
\* changes the repository; on an absent path content, list, is_dir and is_file
\* fail with NotFound and exists is false.
C17_WrongKind ==
    \A p \in Paths :
        /\ IsDirAt(p) =>
              /\ Content(p).err = "IsDir" /\ NothingChanged(QueryOutcome)
              /\ \A c \in Contents :
                    /\ EditOutcome(p, c).res = "IsDir"
                    /\ NothingChanged(EditOutcome(p, c))
        /\ IsFileAt(p) =>
              List(p).err = "IsFile" /\ NothingChanged(QueryOutcome)
        /\ ~Exists(p) =>
              /\ Content(p).err = "NotFound" /\ List(p).err = "NotFound"
              /\ IsDir(p).err = "NotFound" /\ IsFile(p).err = "NotFound"

\* C18: remove(p) succeeds exactly when p is not the root and exists; in every
\* other case (the last segment or an ancestor is absent, an ancestor is a
\* file) it fails with NotFound and publishes nothing.
C18_RemoveSucceedsIffExists ==
    \A p \in Paths :
        LET o == RemoveOutcome(p) IN
        /\ (o.res = "Ok") <=> (p # Root /\ Exists(p))
        /\ o.res # "Ok" =>
              /\ o.res = "NotFound"
              /\ o.commits = (IF p = Root THEN commits ELSE HeadCommits(commits, head))
              /\ o.head = (IF p = Root THEN head ELSE HeadId(commits, head))
              /\ o.tree = HeadTree

C18_Witness ==
    /\ last.op = "remove" /\ last.res = "NotFound" /\ Len(last.path) = 3
    /\ IsFileAt(<<"a">>)
    /\ head = last.head0 /\ Len(commits) = last.n0

\* C19: when remove(p) deletes the only entry of d = parent(p) and the level
\* that holds d has another entry, d is still there afterwards, an existing
\* (empty) directory, and the other entries of that level are untouched.
C19_EmptiedDirectoryStays ==
    \A p \in NonRoot :
        LET d == Parent(p)
            o == RemoveOutcome(p) IN
        (/\ Len(p) >= 2 /\ Exists(p)
         /\ TbLen(Object(d).ents) = 1
         /\ TbLen(Object(Parent(d)).ents) >= 2) =>
            /\ o.res = "Ok"
            /\ ObjectIn(o.tree, d) = EmptyTree
            /\ \A n \in DOMAIN Object(Parent(d)).ents \ {Filename(d)} :
                  ObjectIn(o.tree, Append(Parent(d), n))
                      = Object(Append(Parent(d), n))

C19_Witness ==
    /\ last.op = "remove" /\ last.res = "Ok" /\ Len(last.path) = 3
    /\ ~Exists(last.path)
    /\ Object(Parent(last.path)) = EmptyTree
    /\ TbLen(Object(Parent(Parent(last.path))).ents) >= 2

\* C20: remove(d) on a non-empty directory d succeeds, and afterwards neither
\* d nor any path below d exists.
C20_RemoveDirectory ==
    \A d \in DeepPaths \ {Root} :
        LET o == RemoveOutcome(d) IN
        (IsDirAt(d) /\ TbLen(Object(d).ents) > 0) =>
            /\ o.res = "Ok"
            /\ \A q \in DeepPaths :
                  IsPrefix(d, q) => ObjectIn(o.tree, q).t = "NotFound"

\* C21: no call of edit or remove, on any path, the root included, runs into
\* the assertion assert!(!path.is_empty()) of add_to_tree or remove_from_tree.
C21_AssertionsHold ==
    Mutation => last.res # "Panic"

\* C22: every commit a successful edit or remove publishes has a tree that
\* differs from the tree of its parent.
C22_NoNoOpCommit ==
    /\ \A p \in NonRoot, c \in Contents :
          EditOutcome(p, c).res = "Ok" => EditOutcome(p, c).tree # HeadTree
    /\ \A p \in NonRoot :
          RemoveOutcome(p).res = "Ok" => RemoveOutcome(p).tree # HeadTree

\* C23: a successful edit(p, c) leaves every path other than p a file exactly
\* when it was one, with the content it had, and leaves every directory that
\* is not a proper ancestor of p with the listing it had.
C23_EditFrame ==
    \A p \in NonRoot, c \in Contents :
        LET o == EditOutcome(p, c) IN
        o.res = "Ok" =>
            \A q \in Paths \ {p} :
                /\ (IsFileAt(q) \/ ObjectIn(o.tree, q).t = "blob") =>
                      ObjectIn(o.tree, q) = Object(q)
                /\ (IsDirAt(q) /\ q \notin ProperAncestors(p)) =>
                      /\ ObjectIn(o.tree, q).t = "tree"
                      /\ Listing(ObjectIn(o.tree, q), q) = List(q).val

\* an edit of a/a/a that succeeds while a/a/b and b are files, and leaves them
C23_Witness ==
    /\ IsFileAt(<<"a", "a", "b">>) /\ IsFileAt(<<"b">>)
    /\ EditOutcome(<<"a", "a", "a">>, 1).res = "Ok"
    /\ ObjectIn(EditOutcome(<<"a", "a", "a">>, 1).tree, <<"a", "a", "a">>)
          = Blob(1)
    /\ ObjectIn(EditOutcome(<<"a", "a", "a">>, 1).tree, <<"a", "a", "b">>)
          = Object(<<"a", "a", "b">>)
    /\ ObjectIn(EditOutcome(<<"a", "a", "a">>, 1).tree, <<"b">>)
          = Object(<<"b">>)

\* C24 (as stated): after a query head is the commit it was before and no
\* commit was created, in every reachable state, the fresh repository included.
C24_QueriesChangeNothing ==
    last.op \in QueryOps => head = last.head0 /\ Len(commits) = last.n0

\* C24 (amended): after a query on a repository that has a commit, head and
\* the commits are what they were; the first query on a fresh repository that
\* looks a path up leaves exactly the parentless commit of the empty tree, and
\* head on it.
C24_QueriesOnlyBootstrap ==
    last.op \in QueryOps =>
        IF last.head0 # 0 \/ (last.op = "can_exist" /\ Len(last.path) <= 1)
        THEN head = last.head0 /\ Len(commits) = last.n0
        ELSE /\ last.n0 = 0 /\ commits = <<RootParents>>
             /\ head = 1 /\ tree = EmptyTree

C24_Witness ==
    /\ last.op = "content" /\ last.res = "Ok" /\ Len(last.path) = 2
    /\ last.head0 >= 2 /\ head = last.head0 /\ Len(commits) = last.n0
    /\ Content(last.path).val = 2

\* the part of C25 that is not about the body of the 200 response: a
\* directory gives 302 with Location "/" + path + "/index.md", NotFound gives
\* 404, any other error gives 500, a file gives 200; the repository is changed
\* by nothing but the root commit content() creates on an unborn branch.
GetStatusAndEffect ==
    last.op = "get" =>
        /\ last.res \in {"Ok", "IsDir", "NotFound", "Git"}
        /\ (last.res = "Ok") <=> (last.resp.status = 200)
        /\ last.res = "Ok" => IsFileAt(last.path)
        /\ (last.res = "IsDir") <=> (last.resp.status = 302)
        /\ last.res = "IsDir" =>
              /\ IsDirAt(last.path)
              /\ last.resp.location
                    = <<"/">> \o PercentEncode(Append(last.path, "index.md"))
        /\ (last.res = "NotFound") <=> (last.resp.status = 404)
        /\ last.res = "NotFound" => ~Exists(last.path)
        /\ (last.res = "Git") <=> (last.resp.status = 500)
        /\ IF last.head0 # 0
           THEN head = last.head0 /\ Len(commits) = last.n0
           ELSE commits \in {<< >>, <<RootParents>>} /\ head = Len(commits)
                /\ HeadTree = EmptyTree

====
